---- MODULE Spec2Model ----
(***************************************************************************)
(* gp4ps: the generalized 4-point pose-and-scale minimal solver            *)
(* (src/PoseLib/gp4ps.cc) and the loops of the benchmark that call it      *)
(* (src/benchmark/benchmark.cc).                                           *)
(*                                                                         *)
(* Numbers.  A double matrix is modelled exactly, as a matrix of rationals *)
(* with a common denominator: [r, c, n, d, nf] stands for the r x c matrix *)
(* n[i][j] / d.  d = 0 stands for a matrix divided by zero (Inf or NaN in  *)
(* every entry), and nf[i][j] tells of one entry that it is non-finite (a  *)
(* NaN read from memory and what was computed from it).  gp4ps only adds and multiplies after the inverse, and a sum  *)
(* or product with a non-finite term is non-finite (NaN * 0 = NaN), which  *)
(* is how d = 0 and nf propagate below.  un tells that the matrix was      *)
(* computed from memory the program never wrote: its value is not          *)
(* determined by the program and may be any value at all; whatever is      *)
(* computed from such a matrix is undetermined too.  Indices are 0-based   *)
(* as in the source.                                                       *)
(***************************************************************************)
EXTENDS Integers, Sequences, FiniteSets, TLC

\* the loop bound of gp4ps.cc:40, the correspondences the solver reads
NPts == 4
\* Eigen::Matrix<double, 3, 8> solutions (gp4ps.cc:55)
MaxSols == 8
\* rows of A taken into AR: A.block<3, 9>(4, 4) (gp4ps.cc:50)
ARRows == 3

\* bounds of the model
MaxCalls == 2
GridMax == 1

Threads == {1, 2}

---------------------------------------------------------------------------
(* Exact arithmetic on matrices with a common denominator *)

Abs(a) == IF a < 0 THEN -a ELSE a

RECURSIVE GCD(_, _)
GCD(a, b) == IF b = 0 THEN Abs(a) ELSE GCD(b, a % Abs(b))

RECURSIVE DotTo(_, _, _)
DotTo(u, v, k) == IF k < 0 THEN 0 ELSE u[k] * v[k] + DotTo(u, v, k - 1)

AllIdx(rows, cols) == (0..(rows - 1)) \X (0..(cols - 1))

MatNF(rows, cols, entries, den, nonfinite) ==
  [r |-> rows, c |-> cols, n |-> entries, d |-> den, nf |-> nonfinite, un |-> FALSE]

\* a rows x cols matrix of undetermined value
Undet(rows, cols) ==
  [r |-> rows, c |-> cols, n |-> [i \in 0..(rows - 1) |-> [j \in 0..(cols - 1) |-> 0]],
   d |-> 1, nf |-> [i \in 0..(rows - 1) |-> [j \in 0..(cols - 1) |-> FALSE]],
   un |-> TRUE]

\* P, or the undetermined matrix of its shape when an operand was one
Un(undetermined, P) == IF undetermined THEN Undet(P.r, P.c) ELSE P

Mat(rows, cols, entries, den) ==
  MatNF(rows, cols, entries, den,
        [i \in 0..(rows - 1) |-> [j \in 0..(cols - 1) |-> FALSE]])

IntMat(rows, cols, entries) == Mat(rows, cols, entries, 1)

\* the entries of P that are Inf or NaN
NonFinite(P) == {q \in AllIdx(P.r, P.c) : P.d = 0 \/ P.nf[q[1]][q[2]]}

\* every entry of P is known to be finite
Finite(P) == ~P.un /\ NonFinite(P) = {}

\* P.block<rows, cols>(i0, j0)
Block(P, i0, j0, rows, cols) ==
  Un(P.un,
     MatNF(rows, cols,
           [i \in 0..(rows - 1) |-> [j \in 0..(cols - 1) |-> P.n[i0 + i][j0 + j]]],
           P.d,
           [i \in 0..(rows - 1) |-> [j \in 0..(cols - 1) |-> P.nf[i0 + i][j0 + j]]]))

\* P * Q: an entry is non-finite when a term of its sum is
MatMul(P, Q) ==
  Un(P.un \/ Q.un,
     MatNF(P.r, Q.c,
           [i \in 0..(P.r - 1) |-> [j \in 0..(Q.c - 1) |->
               DotTo(P.n[i], [k \in 0..(P.c - 1) |-> Q.n[k][j]], P.c - 1)]],
           P.d * Q.d,
           [i \in 0..(P.r - 1) |-> [j \in 0..(Q.c - 1) |->
               \E k \in 0..(P.c - 1) : P.nf[i][k] \/ Q.nf[k][j]]]))

\* P - Q
MatSub(P, Q) ==
  Un(P.un \/ Q.un,
     MatNF(P.r, P.c,
           [i \in 0..(P.r - 1) |-> [j \in 0..(P.c - 1) |->
               Q.d * P.n[i][j] - P.d * Q.n[i][j]]],
           P.d * Q.d,
           [i \in 0..(P.r - 1) |-> [j \in 0..(P.c - 1) |-> P.nf[i][j] \/ Q.nf[i][j]]]))

\* -P
MatNeg(P) ==
  Un(P.un,
     MatNF(P.r, P.c, [i \in 0..(P.r - 1) |-> [j \in 0..(P.c - 1) |-> -P.n[i][j]]],
           P.d, P.nf))

\* the indices 0..3 other than k, in order
Others(k) == SelectSeq(<<0, 1, 2, 3>>, LAMBDA q : q # k)

Det3(N, rs, cs) ==
    N[rs[1]][cs[1]] * (N[rs[2]][cs[2]] * N[rs[3]][cs[3]] - N[rs[2]][cs[3]] * N[rs[3]][cs[2]])
  - N[rs[1]][cs[2]] * (N[rs[2]][cs[1]] * N[rs[3]][cs[3]] - N[rs[2]][cs[3]] * N[rs[3]][cs[1]])
  + N[rs[1]][cs[3]] * (N[rs[2]][cs[1]] * N[rs[3]][cs[2]] - N[rs[2]][cs[2]] * N[rs[3]][cs[1]])

Sign(k) == IF k % 2 = 0 THEN 1 ELSE -1

Cofactor(N, i, j) == Sign(i + j) * Det3(N, Others(i), Others(j))

Det4(N) ==
  N[0][0] * Cofactor(N, 0, 0) + N[0][1] * Cofactor(N, 0, 1)
    + N[0][2] * Cofactor(N, 0, 2) + N[0][3] * Cofactor(N, 0, 3)

\* Eigen's fixed-size 4x4 inverse(): the cofactor matrix transposed, divided
\* by the determinant, with no check of the determinant: a zero determinant
\* divides by zero and the result is non-finite (d = 0); so is the inverse
\* of a matrix that holds a NaN, whose determinant is NaN.
Inverse4(P) ==
  Un(P.un,
     Mat(4, 4,
         [i \in 0..3 |-> [j \in 0..3 |-> P.d * Cofactor(P.n, j, i)]],
         IF \E q \in AllIdx(4, 4) : P.nf[q[1]][q[2]] THEN 0 ELSE Det4(P.n)))

RECURSIVE GcdTo(_, _, _)
GcdTo(f, k, g) == IF k < 0 THEN g ELSE GcdTo(f, k - 1, GCD(g, f[k]))

\* The value of a matrix, whatever common denominator it was computed with:
\* lowest terms and a positive denominator; a non-finite entry is one
\* value, whatever it was computed from.
Canon(P) ==
  IF P.un THEN Undet(P.r, P.c)
  ELSE IF P.r * P.c > 0 /\ NonFinite(P) = AllIdx(P.r, P.c)
    THEN Mat(P.r, P.c, [i \in 0..(P.r - 1) |-> [j \in 0..(P.c - 1) |-> 0]], 0)
    ELSE LET num(i, j) == IF P.nf[i][j] THEN 0 ELSE P.n[i][j]
             flat == [k \in 0..(P.r * P.c - 1) |-> num(k \div P.c, k % P.c)]
             g == GcdTo(flat, P.r * P.c - 1, Abs(P.d))
             s == IF P.d < 0 THEN -g ELSE g
         IN MatNF(P.r, P.c,
                  [i \in 0..(P.r - 1) |-> [j \in 0..(P.c - 1) |-> num(i, j) \div s]],
                  P.d \div s, P.nf)

---------------------------------------------------------------------------
(* The inputs: sequences of 3-vectors; v(k) of the source is V(v, k) *)

V(v, k) == v[k + 1]

\* seq[i] of a std::vector, unchecked: an index at or beyond size() reads
\* whatever lies behind the buffer (the value g)
At(seq, i, g) == IF i < Len(seq) THEN seq[i + 1] ELSE g

\* the components of seq[i] that are NaN: none of an element of the
\* sequence, the components `mask` of what lies behind the buffer
AtNaN(seq, i, mask) == IF i < Len(seq) THEN {} ELSE mask

\* A.row(2 * i) (gp4ps.cc:44)
RowEven(pi, xi, Xi) ==
  <<V(xi, 2), 0, -V(xi, 0), -V(pi, 0) * V(xi, 2) + V(pi, 2) * V(xi, 0),
    V(Xi, 0) * V(xi, 2), 0, -V(Xi, 0) * V(xi, 0),
    V(Xi, 1) * V(xi, 2), 0, -V(Xi, 1) * V(xi, 0),
    V(Xi, 2) * V(xi, 2), 0, -V(Xi, 2) * V(xi, 0)>>

\* A.row(2 * i + 1) (gp4ps.cc:45)
RowOdd(pi, xi, Xi) ==
  <<0, V(xi, 2), -V(xi, 1), -V(pi, 1) * V(xi, 2) + V(pi, 2) * V(xi, 1),
    0, V(Xi, 0) * V(xi, 2), -V(Xi, 0) * V(xi, 1),
    0, V(Xi, 1) * V(xi, 2), -V(Xi, 1) * V(xi, 1),
    0, V(Xi, 2) * V(xi, 2), -V(Xi, 2) * V(xi, 1)>>

\* the components of p[i], x[i], X[i] each entry of A.row(2 * i) is
\* computed from (gp4ps.cc:44); the entries 0.0 are computed from none
RowEvenUses ==
  << <<{}, {2}, {}>>, <<{}, {}, {}>>, <<{}, {0}, {}>>, <<{0, 2}, {0, 2}, {}>>,
     <<{}, {2}, {0}>>, <<{}, {}, {}>>, <<{}, {0}, {0}>>,
     <<{}, {2}, {1}>>, <<{}, {}, {}>>, <<{}, {0}, {1}>>,
     <<{}, {2}, {2}>>, <<{}, {}, {}>>, <<{}, {0}, {2}>> >>

\* the same for A.row(2 * i + 1) (gp4ps.cc:45)
RowOddUses ==
  << <<{}, {}, {}>>, <<{}, {2}, {}>>, <<{}, {1}, {}>>, <<{1, 2}, {1, 2}, {}>>,
     <<{}, {}, {}>>, <<{}, {2}, {0}>>, <<{}, {1}, {0}>>,
     <<{}, {}, {}>>, <<{}, {2}, {1}>>, <<{}, {1}, {1}>>,
     <<{}, {}, {}>>, <<{}, {2}, {2}>>, <<{}, {1}, {2}>> >>

\* the loop of gp4ps.cc:40-46: the 8 x 13 matrix A; g is what an
\* out-of-range read of p, x, X returns: the vectors g.p, g.x, g.X with the
\* components g.nan[1], g.nan[2], g.nan[3] of them NaN
BuildA(p, x, X, g) ==
  MatNF(2 * NPts, 13,
    [row \in 0..(2 * NPts - 1) |->
       LET i == row \div 2
           r == IF row % 2 = 0
                  THEN RowEven(At(p, i, g.p), At(x, i, g.x), At(X, i, g.X))
                  ELSE RowOdd(At(p, i, g.p), At(x, i, g.x), At(X, i, g.X))
       IN [col \in 0..12 |-> r[col + 1]]],
    1,
    [row \in 0..(2 * NPts - 1) |-> [col \in 0..12 |->
       LET i == row \div 2
           u == IF row % 2 = 0 THEN RowEvenUses[col + 1] ELSE RowOddUses[col + 1]
       IN \/ u[1] \cap AtNaN(p, i, g.nan[1]) # {}
          \/ u[2] \cap AtNaN(x, i, g.nan[2]) # {}
          \/ u[3] \cap AtNaN(X, i, g.nan[3]) # {}]])

\* the indices the loop of gp4ps.cc:40-46 reads that lie outside a sequence
OutOfRange(seq) == {i \in 0..(NPts - 1) : i >= Len(seq)}

\* Eigen::Matrix4d B = A.block<4, 4>(0, 0).inverse();  (gp4ps.cc:48)
LeadInverse(A) == Inverse4(Block(A, 0, 0, 4, 4))

\* mutant of AR: the rows 5..7 instead of the rows 4..6
ReducedARLastRows(A, B) ==
  MatSub(Block(A, 5, 4, ARRows, 9),
         MatMul(MatMul(Block(A, 5, 0, ARRows, 4), B), Block(A, 0, 4, 4, 9)))

\* AR = A.block<3, 9>(4, 4) - A.block<3, 4>(4, 0) * B * A.block<4, 9>(0, 4)
\* (gp4ps.cc:50)
ReducedAR(A, B) ==
  MatSub(Block(A, 4, 4, ARRows, 9),
         MatMul(MatMul(Block(A, 4, 0, ARRows, 4), B), Block(A, 0, 4, 4, 9)))

---------------------------------------------------------------------------
(* The collaborators of re3q3.h, from their contract: the Cayley           *)
(* parameterization R(s) = M(s) / (1 + |s|^2) and the solver of the three  *)
(* quadratics AR * vec(M(s)) = 0.                                          *)

\* the numerators of cayley_param: M(s) with s = (a, b, c)
CayleyNum(s) ==
  LET a == s[1]
      b == s[2]
      c == s[3]
  IN <<<<1 + a*a - b*b - c*c, 2 * (a*b - c), 2 * (a*c + b)>>,
       <<2 * (a*b + c), 1 - a*a + b*b - c*c, 2 * (b*c - a)>>,
       <<2 * (a*c - b), 2 * (b*c + a), 1 - a*a - b*b + c*c>>>>

\* re3q3::cayley_param(solutions.col(i), &pose.R)
cayley_param(s) ==
  Mat(3, 3,
      [i \in 0..2 |-> [j \in 0..2 |-> CayleyNum(s)[i + 1][j + 1]]],
      1 + s[1]*s[1] + s[2]*s[2] + s[3]*s[3])

\* the monomials a^2, ab, ac, b^2, bc, c^2, a, b, c, 1 as a 10 x 1 matrix
Monomials(s) ==
  LET a == s[1]
      b == s[2]
      c == s[3]
      m == <<a*a, a*b, a*c, b*b, b*c, c*c, a, b, c, 1>>
  IN IntMat(10, 1, [k \in 0..9 |-> [j \in 0..0 |-> m[k + 1]]])

\* vec(M(s)) = CayleyCoeffs * Monomials(s), vec column-major
CayleyCoeffs ==
  LET k == << <<1, 0, 0, -1, 0, -1, 0, 0, 0, 1>>,
              <<0, 2, 0, 0, 0, 0, 0, 0, 2, 0>>,
              <<0, 0, 2, 0, 0, 0, 0, -2, 0, 0>>,
              <<0, 2, 0, 0, 0, 0, 0, 0, -2, 0>>,
              <<-1, 0, 0, 1, 0, -1, 0, 0, 0, 1>>,
              <<0, 0, 0, 0, 2, 0, 2, 0, 0, 0>>,
              <<0, 0, 2, 0, 0, 0, 0, 2, 0, 0>>,
              <<0, 0, 0, 0, 2, 0, -2, 0, 0, 0>>,
              <<-1, 0, 0, -1, 0, 1, 0, 0, 0, 1>> >>
  IN IntMat(9, 10, [i \in 0..8 |-> [j \in 0..9 |-> k[i + 1][j + 1]]])

\* re3q3::rotation_to_3q3(AR, &coeffs): the 3 x 10 coefficients of the
\* quadratics in the Cayley parameters
rotation_to_3q3(AR) == MatMul(AR, CayleyCoeffs)

\* s solves the three quadratics
IsRoot(coeffs, s) ==
  /\ Finite(coeffs)
  /\ LET m == [k \in 0..9 |-> Monomials(s).n[k][0]]
     IN \A i \in 0..(coeffs.r - 1) : DotTo(coeffs.n[i], m, 9) = 0

\* the parameter vectors the model can represent, in lexicographic order
GridVals == [k \in 1..(2 * GridMax + 1) |-> k - GridMax - 1]

GridSeq ==
  LET m == 2 * GridMax + 1
  IN [k \in 1..(m * m * m) |->
        <<GridVals[((k - 1) \div (m * m)) + 1],
          GridVals[(((k - 1) \div m) % m) + 1],
          GridVals[((k - 1) % m) + 1]>>]

Reverse(q) == [k \in 1..Len(q) |-> q[Len(q) + 1 - k]]

\* re3q3::re3q3(coeffs, &solutions): the real roots, at most 8 of them, in
\* the order the collaborator happens to produce (o.order); on non-finite
\* coefficients the outcome is the collaborator's own (o.nanSols columns of
\* whatever it wrote)
re3q3(coeffs, o) ==
  IF ~Finite(coeffs)
    THEN [k \in 1..o.nanSols |-> <<0, 0, 0>>]
    ELSE LET roots == SelectSeq(GridSeq, LAMBDA s : IsRoot(coeffs, s))
             found == SubSeq(roots, 1, IF Len(roots) < MaxSols THEN Len(roots) ELSE MaxSols)
         IN IF o.order = "asc" THEN found ELSE Reverse(found)

---------------------------------------------------------------------------
(* The loop body of gp4ps (gp4ps.cc:60-67) *)

\* mutant of vec(R): row-major
VecRRowMajor(R) ==
  Un(R.un,
     MatNF(9, 1, [k \in 0..8 |-> [j \in 0..0 |-> R.n[k \div 3][k % 3]]], R.d,
           [k \in 0..8 |-> [j \in 0..0 |-> R.nf[k \div 3][k % 3]]]))

\* Eigen::Map<Eigen::Matrix<double, 9, 1>>(pose.R.data()): column-major
VecR(R) ==
  Un(R.un,
     MatNF(9, 1, [k \in 0..8 |-> [j \in 0..0 |-> R.n[k % 3][k \div 3]]], R.d,
           [k \in 0..8 |-> [j \in 0..0 |-> R.nf[k % 3][k \div 3]]]))

\* mutant of the back-substitution: the sign dropped
BackSubstNoNeg(A, B, R) == MatMul(B, MatMul(Block(A, 0, 4, 4, 9), VecR(R)))

\* ts = -B * (A.block<4, 9>(0, 4) * vec(R))  (gp4ps.cc:63)
BackSubst(A, B, R) == MatMul(MatNeg(B), MatMul(Block(A, 0, 4, 4, 9), VecR(R)))

\* CameraPose pose;  (gp4ps.cc:61): no field is assigned yet
NewPose ==
  [R |-> Canon(Mat(3, 3, [i \in 0..2 |-> [j \in 0..2 |-> 0]], 1)),
   t |-> Canon(Mat(3, 1, [i \in 0..2 |-> [j \in 0..0 |-> 0]], 1)),
   alpha |-> Canon(Mat(1, 1, [i \in 0..0 |-> [j \in 0..0 |-> 0]], 1)),
   assigned |-> {}]

\* solutions.col(i): the column re3q3 wrote; a column at or beyond those
\* it wrote is a read of `Eigen::Matrix<double, 3, 8> solutions`
\* (gp4ps.cc:55) where nothing was written: whatever the stack held, a
\* value the program does not determine
SolCol(solutions, i) ==
  IF i < Len(solutions)
    THEN [written |-> TRUE, s |-> solutions[i + 1]]
    ELSE [written |-> FALSE, s |-> <<0, 0, 0>>]

\* mutants of the loop test: the last root skipped; one column too many
LoopCondSkipLast(i, n_sols) == i + 1 < n_sols

LoopCondInclusive(i, n_sols) == i <= n_sols

\* i < n_sols  (gp4ps.cc:60)
LoopCond(i, n_sols) == i < n_sols

\* re3q3::cayley_param(solutions.col(i), &pose.R);  (gp4ps.cc:62)
SetR(pose, col) ==
  [pose EXCEPT !.R = IF col.written THEN Canon(cayley_param(col.s)) ELSE Undet(3, 3),
               !.assigned = @ \cup {"R"}]

\* pose.t = ts.block<3, 1>(0, 0);  (gp4ps.cc:64)
SetT(pose, tsv) ==
  [pose EXCEPT !.t = Canon(Block(tsv, 0, 0, 3, 1)), !.assigned = @ \cup {"t"}]

\* pose.alpha = ts(3);  (gp4ps.cc:65)
SetAlpha(pose, tsv) ==
  [pose EXCEPT !.alpha = Canon(Block(tsv, 3, 0, 1, 1)), !.assigned = @ \cup {"alpha"}]

\* mutants of the push_back: an insertion at the front; a pose kept only
\* when its scale is positive
PushFront(out, pose) == <<pose>> \o out

PushIfPositiveScale(out, pose) ==
  IF pose.alpha.n[0][0] > 0 THEN Append(out, pose) ELSE out

\* output->push_back(pose);  (gp4ps.cc:66)
PushBack(out, pose) == Append(out, pose)

\* return n_sols;  (gp4ps.cc:69)
ReturnValue(n_sols) == n_sols

\* mutant of the local ts: a static, one for all threads
TsSlotStatic(t) == 1

\* Eigen::Vector4d ts;  (gp4ps.cc:59): a local of the call, one per thread
TsSlot(t) == t

---------------------------------------------------------------------------
(* The problem instances the callers pass (benchmark.cc:11-12): the        *)
(* concrete scenario X = {(0,0,5), (1,0,5), (0,1,5), (1,1,6)} with rays    *)
(* derived from a ground truth, and inputs that are noisy, degenerate or   *)
(* of the wrong length.  gt is the ground truth (Cayley parameters s,      *)
(* translation t, scale alpha) where there is one.                         *)

ScenarioX == << <<0, 0, 5>>, <<1, 0, 5>>, <<0, 1, 5>>, <<1, 1, 6>> >>
ScenarioP == << <<1, 0, 0>>, <<0, 1, 0>>, <<0, 0, 0>>, <<1, 1, 1>> >>

NoGT == [has |-> FALSE, s |-> <<0, 0, 0>>, t |-> <<0, 0, 0>>, alpha |-> 0]
GT(s, t, alpha) == [has |-> TRUE, s |-> s, t |-> t, alpha |-> alpha]

Problem(name, p, x, X, gt) == [name |-> name, p |-> p, x |-> x, X |-> X, gt |-> gt]

NoProblem == Problem("none", <<>>, <<>>, <<>>, NoGT)

IdentityX == << <<-1, 0, 5>>, <<1, -1, 5>>, <<0, 1, 5>>, <<0, 0, 1>> >>

Instances ==
  { Problem("identity", ScenarioP, IdentityX, ScenarioX,
            GT(<<0, 0, 0>>, <<0, 0, 0>>, 1)),
    Problem("mirror", ScenarioP,
            << <<1, 0, 5>>, <<0, 2, 5>>, <<-1, 0, 5>>, <<0, 2, 7>> >>, ScenarioX,
            GT(<<0, 0, 1>>, <<0, 0, 0>>, -1)),
    Problem("scaled", ScenarioP,
            << <<7, -10, -2>>, <<7, -7, -2>>, <<5, -3, 0>>, <<4, -5, -3>> >>, ScenarioX,
            GT(<<1, 1, 0>>, <<1, 0, 1>>, 2)),
    Problem("noroot", ScenarioP,
            << <<-1, 0, 5>>, <<1, -1, 5>>, <<0, 1, 5>>, <<1, 0, 5>> >>, ScenarioX,
            NoGT),
    Problem("central", << <<1, 0, 0>>, <<1, 0, 0>>, <<0, 0, 0>>, <<1, 1, 1>> >>,
            IdentityX, ScenarioX, NoGT),
    Problem("short", SubSeq(ScenarioP, 1, 3), SubSeq(IdentityX, 1, 3),
            SubSeq(ScenarioX, 1, 3), NoGT),
    Problem("long", ScenarioP \o << <<0, 0, 1>> >>, IdentityX \o << <<0, 0, 1>> >>,
            ScenarioX \o << <<2, 2, 2>> >>, NoGT),
    \* two rays of length zero: the rows 4..7 of A vanish and every rotation
    \* solves the reduced system
    Problem("zerorays", ScenarioP,
            << <<-1, 0, 5>>, <<1, -1, 5>>, <<0, 0, 0>>, <<0, 0, 0>> >>, ScenarioX,
            NoGT) }

\* the instances two threads solve at the same time
ConcurrentInstances ==
  {q \in Instances : q.name \in {"identity", "mirror", "noroot", "central"}}

\* what the reads p[i], x[i], X[i] behind the end return: the three
\* vectors, the components of each that are NaN, or no value at all when the
\* read faults and the process dies
Read(gp, gx, gX, nan) == [p |-> gp, x |-> gx, X |-> gX, nan |-> nan, crash |-> FALSE]

NoNaN == <<{}, {}, {}>>

\* a call that reads nothing behind the end
NoGarbage == Read(<<0, 0, 0>>, <<0, 0, 0>>, <<0, 0, 0>>, NoNaN)

\* Reading behind size() is undefined: the values are whatever the memory
\* holds.  The model takes these outcomes: the fourth correspondence of
\* "identity" left behind by a pop_back; other stale elements, with one
\* root and with none; a stale ray with a NaN; and the fault.
Garbage ==
  { Read(<<1, 1, 1>>, <<0, 0, 1>>, <<1, 1, 6>>, NoNaN),
    Read(<<0, 0, 1>>, <<0, 0, 1>>, <<0, 0, 1>>, NoNaN),
    Read(<<1, 0, 1>>, <<1, 1, 1>>, <<2, 0, 1>>, NoNaN),
    Read(<<9, 8, 7>>, <<3, 2, 4>>, <<-5, 6, 2>>, NoNaN),
    Read(<<1, 1, 1>>, <<0, 0, 0>>, <<1, 1, 6>>, <<{}, {0}, {}>>),
    [NoGarbage EXCEPT !.crash = TRUE] }

ShortInput(inst) == OutOfRange(inst.p) \cup OutOfRange(inst.x) \cup OutOfRange(inst.X) # {}

\* the unspecified sides of the collaborator: the order of the roots and
\* what it reports on non-finite coefficients
Oracles == [order : {"asc", "desc"}, nanSols : {0, 2}]

---------------------------------------------------------------------------
VARIABLES
  oracle,   \* the collaborator's behaviour, fixed for the run
  th,       \* per thread: the position in gp4ps and its locals
  ts,       \* the Vector4d ts of each call
  output,   \* per thread: the caller's vector of poses
  ncalls,   \* calls started
  memo      \* the calls that returned: inputs and result

vars == <<oracle, th, ts, output, ncalls, memo>>

ZeroTs == Mat(4, 1, [i \in 0..3 |-> [j \in 0..0 |-> 0]], 1)

Idle ==
  [pc |-> "idle", inst |-> NoProblem, p |-> <<>>, x |-> <<>>, X |-> <<>>,
   g |-> NoGarbage, overlapped |-> FALSE,
   A |-> IntMat(0, 0, <<>>), B |-> IntMat(0, 0, <<>>), AR |-> IntMat(0, 0, <<>>),
   n_sols |-> 0, solutions |-> <<>>, i |-> 0, pose |-> NewPose,
   before |-> 0, old |-> <<>>, colsRead |-> {}, oob |-> {}, ret |-> 0]

Init ==
  /\ oracle \in Oracles
  /\ th = [t \in Threads |-> Idle]
  /\ ts = [t \in Threads |-> ZeroTs]
  /\ output = [t \in Threads |-> <<>>]
  /\ ncalls = 0
  /\ memo = {}

\* what a call reads behind the end of its inputs: nothing when they hold
\* NPts vectors or more
Reads(inst) == IF ShortInput(inst) THEN Garbage ELSE {NoGarbage}

\* gp4ps.cc:38-57: A, B, AR, the coefficients and the roots
Locals(inst, g, o) ==
  LET A == BuildA(inst.p, inst.x, inst.X, g)
      B == LeadInverse(A)
      AR == ReducedAR(A, B)
      coeffs == rotation_to_3q3(AR)
      solutions == re3q3(coeffs, o)
  IN [A |-> A, B |-> B, AR |-> AR, n_sols |-> Len(solutions), solutions |-> solutions]

\* Locals, computed once for every input of the model
LocalsOf ==
  [k \in {<<inst, g, o>> : inst \in Instances, g \in UNION {Reads(q) : q \in Instances},
                           o \in Oracles} |-> Locals(k[1], k[2], k[3])]

\* thread u is inside gp4ps
Running(u) == th[u].pc \in {"loop", "assign"}

\* no read has faulted: the process is alive
Alive == \A u \in Threads : th[u].pc # "crashed"

\* gp4ps.cc:35-59: the call up to the loop, on the output `out` of the
\* caller; a read behind the end that faults ends the process in the loop
\* of gp4ps.cc:40-46
Enter(t, inst, g, out) ==
  LET l == LocalsOf[<<inst, g, oracle>>]
      oob == OutOfRange(inst.p) \cup OutOfRange(inst.x) \cup OutOfRange(inst.X)
  IN IF g.crash
       THEN [Idle EXCEPT !.pc = "crashed", !.inst = inst, !.p = inst.p, !.x = inst.x,
                         !.X = inst.X, !.g = g, !.before = Len(out), !.old = out,
                         !.oob = oob]
       ELSE [pc |-> "loop", inst |-> inst, p |-> inst.p, x |-> inst.x, X |-> inst.X,
             g |-> g, overlapped |-> \E u \in Threads : Running(u),
             A |-> l.A, B |-> l.B, AR |-> l.AR,
             n_sols |-> l.n_sols, solutions |-> l.solutions, i |-> 0, pose |-> NewPose,
             before |-> Len(out), old |-> out, colsRead |-> {},
             oob |-> oob, ret |-> 0]

\* a caller calls gp4ps on its own inputs and hands it the output `out`
CallOn(t, insts, out) ==
  /\ Alive
  /\ th[t].pc \in {"idle", "done"}
  /\ ncalls < MaxCalls
  \* the threads are alike: the first call is thread 1's
  /\ ncalls = 0 => t = 1
  /\ \E inst \in insts :
       \E g \in Reads(inst) :
         th' = [u \in Threads |->
                  IF u = t THEN Enter(t, inst, g, out)
                  ELSE [th[u] EXCEPT !.overlapped = @ \/ Running(u)]]
  /\ output' = [output EXCEPT ![t] = out]
  /\ ncalls' = ncalls + 1
  /\ UNCHANGED <<oracle, ts, memo>>

\* the benchmark: every solve is handed an empty vector, a new one
\* (benchmark.cc:21-23) or the one it has just cleared (benchmark.cc:46-48)
Call(t) == CallOn(t, ConcurrentInstances, <<>>)

\* gp4ps.cc:60-63: the loop test, the rotation of root i and ts
LoopBody(t) ==
  /\ Alive
  /\ th[t].pc = "loop"
  /\ LoopCond(th[t].i, th[t].n_sols)
  /\ LET pose == SetR(NewPose, SolCol(th[t].solutions, th[t].i))
     IN /\ th' = [th EXCEPT ![t].pc = "assign", ![t].pose = pose,
                            ![t].colsRead = @ \cup {th[t].i}]
        /\ ts' = [ts EXCEPT ![TsSlot(t)] = BackSubst(th[t].A, th[t].B, pose.R)]
  /\ UNCHANGED <<oracle, output, ncalls, memo>>

\* gp4ps.cc:64-66 and ++i: t and alpha from ts, and the push_back
Assign(t) ==
  /\ Alive
  /\ th[t].pc = "assign"
  /\ LET pose == SetAlpha(SetT(th[t].pose, ts[TsSlot(t)]), ts[TsSlot(t)])
     IN /\ output' = [output EXCEPT ![t] = PushBack(@, pose)]
        /\ th' = [th EXCEPT ![t].pc = "loop", ![t].pose = pose, ![t].i = @ + 1]
  /\ UNCHANGED <<oracle, ts, ncalls, memo>>

\* gp4ps.cc:69: the loop is over; return n_sols
Return(t) ==
  /\ Alive
  /\ th[t].pc = "loop"
  /\ ~LoopCond(th[t].i, th[t].n_sols)
  /\ LET r == ReturnValue(th[t].n_sols)
     IN /\ th' = [th EXCEPT ![t].pc = "done", ![t].ret = r]
        /\ memo' = memo \cup
             {[p |-> th[t].p, x |-> th[t].x, X |-> th[t].X, inrange |-> th[t].oob = {},
               thread |-> t, before |-> th[t].before, overlapped |-> th[t].overlapped,
               ret |-> r,
               poses |-> SubSeq(output[t], th[t].before + 1, Len(output[t]))]}
  /\ UNCHANGED <<oracle, ts, output, ncalls>>

\* two threads, each solving as the benchmark does, on vectors of its own
Next == \E t \in Threads : Call(t) \/ LoopBody(t) \/ Assign(t) \/ Return(t)

Spec == Init /\ [][Next]_vars

\* one caller alone, as the loops of the benchmark (benchmark.cc:20-51),
\* on every instance: every solve on an empty vector
CallSeq == CallOn(1, Instances, <<>>)

NextSeq == CallSeq \/ LoopBody(1) \/ Assign(1) \/ Return(1)

SpecSeq == Init /\ [][NextSeq]_vars

\* gp4ps called directly (gp4ps.cc:35-36) by a caller that keeps its output
\* from one call to the next: the vector holds the poses of the calls before
CallApi == CallOn(1, Instances, output[1])

NextApi == CallApi \/ LoopBody(1) \/ Assign(1) \/ Return(1)

SpecApi == Init /\ [][NextApi]_vars

---------------------------------------------------------------------------
(* What the benchmark measures (benchmark.cc:25-37) *)

AllFields == {"R", "t", "alpha"}

\* the pose of a ground truth
GTPose(gt) ==
  [R |-> Canon(cayley_param(gt.s)),
   t |-> Canon(IntMat(3, 1, [i \in 0..2 |-> [j \in 0..0 |-> gt.t[i + 1]]])),
   alpha |-> Canon(IntMat(1, 1, [i \in 0..0 |-> [j \in 0..0 |-> gt.alpha]])),
   assigned |-> AllFields]

\* pose_error < tol for the minimum of compute_pose_error over the poses
\* returned: in exact arithmetic, one of them is the ground truth
found_gt_pose(gt, poses) == \E k \in 1..Len(poses) : poses[k] = GTPose(gt)

---------------------------------------------------------------------------
(* Vocabulary of the properties *)

InCall(t) == th[t].pc \in {"loop", "assign", "done"}

Done(t) == th[t].pc = "done"

\* the poses the current (or last) call of thread t has appended
Appended(t) == SubSeq(output[t], th[t].before + 1, Len(output[t]))

IsPrefix(a, b) == Len(a) <= Len(b) /\ SubSeq(b, 1, Len(a)) = a

SameInputs(m1, m2) == m1.p = m2.p /\ m1.x = m2.x /\ m1.X = m2.X

WellFormed(t) == Len(th[t].p) = NPts /\ Len(th[t].x) = NPts /\ Len(th[t].X) = NPts

FinitePose(pose) == Finite(pose.R) /\ Finite(pose.t) /\ Finite(pose.alpha)

\* row r of A * [t; alpha; vec(R)], times the three denominators
ResidualNum(A, pose, r) ==
    pose.alpha.d * pose.R.d * DotTo(A.n[r], [c \in 0..2 |-> pose.t.n[c][0]], 2)
  + pose.t.d * pose.R.d * A.n[r][3] * pose.alpha.n[0][0]
  + pose.t.d * pose.alpha.d
      * DotTo([k \in 0..8 |-> A.n[r][4 + k]], [k \in 0..8 |-> pose.R.n[k % 3][k \div 3]], 8)

RowVanishes(A, pose, r) == FinitePose(pose) /\ ResidualNum(A, pose, r) = 0

\* x[i] x (R X[i] + t - alpha p[i]) = 0 with a depth lambda_i >= 0, for the
\* ground truth gt, times the denominator of R
IsGroundTruth(p, x, X, gt) ==
  /\ gt.has
  /\ Len(p) = NPts /\ Len(x) = NPts /\ Len(X) = NPts
  /\ LET M == CayleyNum(gt.s)
         d == 1 + gt.s[1] * gt.s[1] + gt.s[2] * gt.s[2] + gt.s[3] * gt.s[3]
         v(i) == [c \in 1..3 |->
                    M[c][1] * X[i][1] + M[c][2] * X[i][2] + M[c][3] * X[i][3]
                      + d * gt.t[c] - d * gt.alpha * p[i][c]]
     IN \A i \in 1..NPts :
          /\ x[i][2] * v(i)[3] - x[i][3] * v(i)[2] = 0
          /\ x[i][3] * v(i)[1] - x[i][1] * v(i)[3] = 0
          /\ x[i][1] * v(i)[2] - x[i][2] * v(i)[1] = 0
          /\ x[i][1] * v(i)[1] + x[i][2] * v(i)[2] + x[i][3] * v(i)[3] >= 0

---------------------------------------------------------------------------
(* The properties *)

\* C1: when a call has returned, the value returned is the number of poses
\* it appended and the number of roots re3q3 reported; with no root the
\* output is what it was before the call.
C1_ReturnCountsAppended ==
  \A t \in Threads :
    Done(t) =>
      /\ Len(output[t]) = th[t].before + th[t].ret
      /\ th[t].ret = Len(th[t].solutions)
      /\ th[t].ret = th[t].n_sols
      /\ (th[t].n_sols = 0 => output[t] = th[t].old)

\* a call that found no root has returned 0 on an output that held the two
\* poses of an earlier call, which it still holds
C1_Witness ==
  \E t \in Threads :
    /\ Done(t) /\ th[t].inst.name = "noroot" /\ th[t].ret = 0
    /\ Len(output[t]) = 2
    /\ \E m \in memo : m.ret = 2 /\ Len(m.poses) = 2

\* C2: a step of gp4ps leaves every pose of the output where it was (the
\* old contents are a prefix of the new), through any sequence of calls on
\* the same output; and what a call appends is the same whatever the output
\* held before it.
C2_StepKeepsPrefix ==
  \A t \in Threads : Running(t) => IsPrefix(output[t], output'[t])

C2_AppendOnly ==
  /\ [][C2_StepKeepsPrefix]_vars
  /\ [](\A t \in Threads : InCall(t) => IsPrefix(th[t].old, output[t]))
  /\ [](\A m1, m2 \in memo :
          SameInputs(m1, m2) /\ m1.inrange /\ m2.inrange => m1.poses = m2.poses)

\* the same inputs were solved on an empty output and then on the output
\* that held the poses of that first call
C2_Witness ==
  \E t \in Threads :
    /\ Done(t) /\ th[t].before >= 1 /\ th[t].ret >= 1
    /\ th[t].old # <<>> /\ Len(output[t]) > Len(th[t].old)
    /\ \E m \in memo :
         /\ m.before = 0 /\ m.ret >= 1 /\ m.inrange
         /\ m.p = th[t].p /\ m.x = th[t].x /\ m.X = th[t].X

\* C3: for 4 correspondences built from a ground truth with depths >= 0 and
\* a regular leading block, the poses appended include the ground truth
\* (what the benchmark counts as found_gt_pose_).
C3_RoundTrip ==
  \A t \in Threads :
    (/\ Done(t)
     /\ IsGroundTruth(th[t].p, th[t].x, th[t].X, th[t].inst.gt)
     /\ Finite(th[t].B))
    => found_gt_pose(th[t].inst.gt, Appended(t))

\* the instance with rotation, translation and scale 2 was solved and its
\* ground truth is among the poses
C3_Witness ==
  \E t \in Threads :
    /\ Done(t) /\ th[t].inst.name = "scaled"
    /\ IsGroundTruth(th[t].p, th[t].x, th[t].X, th[t].inst.gt)
    /\ Finite(th[t].B)
    /\ th[t].inst.gt.alpha = 2
    /\ Appended(t) # <<>>
    /\ found_gt_pose(th[t].inst.gt, Appended(t))

\* C5: the count of roots, and the value returned, are in 0..8, and the
\* loop reads only columns of the solutions below that count.
C5_SolutionBound ==
  \A t \in Threads :
    InCall(t) =>
      /\ th[t].n_sols \in 0..MaxSols
      /\ th[t].colsRead \subseteq 0..(th[t].n_sols - 1)
      /\ th[t].colsRead \subseteq 0..(MaxSols - 1)
      /\ (Done(t) => th[t].ret \in 0..MaxSols /\ th[t].colsRead = 0..(th[t].n_sols - 1))

\* a call has returned 8, having read the 8 columns
C5_Witness ==
  \E t \in Threads :
    /\ Done(t) /\ th[t].ret = MaxSols /\ Len(Appended(t)) = MaxSols
    /\ th[t].colsRead = 0..(MaxSols - 1)

\* the residual rows the solver enforces: the 4 rows eliminated and the
\* rows taken into AR
EnforcedRows == 0..(4 + ARRows - 1)

\* C4 as stated: every pose appended makes all 8 rows of A vanish, both
\* rows of the fourth correspondence included (here even when the leading
\* block is regular).
C4_AllRowsVanish ==
  \A t \in Threads :
    InCall(t) /\ Finite(th[t].A) /\ Finite(th[t].B) =>
      \A k \in 1..Len(Appended(t)) :
        \A r \in 0..(2 * NPts - 1) : RowVanishes(th[t].A, Appended(t)[k], r)

\* C4 amended: every pose appended makes the rows 0..6 of A vanish when A
\* is finite and the leading block is regular; the row 7 is not enforced.
\* When the leading block is singular every pose appended is non-finite and
\* no residual vanishes.
C4_EnforcedRowsVanish ==
  \A t \in Threads :
    InCall(t) =>
      \A k \in 1..Len(Appended(t)) :
        /\ Finite(th[t].A) /\ Finite(th[t].B) =>
             \A r \in EnforcedRows : RowVanishes(th[t].A, Appended(t)[k], r)
        /\ ~Finite(th[t].B) =>
             NonFinite(Appended(t)[k].t) = AllIdx(3, 1) /\ ~Finite(Appended(t)[k].alpha)

\* of the two poses appended for the ground-truth instance "mirror", one
\* makes the rows 0..6 vanish and not the row 7
C4_Witness ==
  \E t \in Threads :
    /\ Done(t) /\ th[t].inst.name = "mirror" /\ Finite(th[t].B)
    /\ IsGroundTruth(th[t].p, th[t].x, th[t].X, th[t].inst.gt)
    /\ Len(Appended(t)) = 2
    /\ \E k \in 1..2 :
         /\ \A r \in EnforcedRows : RowVanishes(th[t].A, Appended(t)[k], r)
         /\ ~RowVanishes(th[t].A, Appended(t)[k], 7)

\* C6 as stated: with a singular leading block the call appends nothing and
\* returns 0, and no pose appended holds a non-finite value.
C6_SingularYieldsNothing ==
  \A t \in Threads :
    InCall(t) /\ ~Finite(th[t].B) =>
      /\ output[t] = th[t].old
      /\ (Done(t) => th[t].ret = 0)
      /\ \A k \in 1..Len(Appended(t)) : FinitePose(Appended(t)[k])

\* C7 as stated: a call whose p, x or X does not hold exactly 4 vectors is
\* rejected before any computation: no read out of range, no use of the
\* first 4 of a longer sequence, nothing appended.
C7_MalformedRejected ==
  \A t \in Threads :
    InCall(t) /\ ~WellFormed(t) =>
      /\ th[t].oob = {}
      /\ th[t].n_sols = 0
      /\ output[t] = th[t].old
      /\ (Done(t) => th[t].ret = 0)

\* C8: the poses a call appends and the value it returns depend on its p, x
\* and X alone: two calls with the same inputs end the same, whichever
\* thread ran them, whatever ran before and whatever ran meanwhile.
C8_Stateless ==
  \A m1, m2 \in memo :
    SameInputs(m1, m2) /\ m1.inrange /\ m2.inrange =>
      m1.ret = m2.ret /\ m1.poses = m2.poses

\* two threads have solved the same inputs, two roots each, each while the
\* other was inside gp4ps
C8_Witness ==
  \E m1, m2 \in memo :
    /\ m1.thread # m2.thread /\ SameInputs(m1, m2)
    /\ m1.overlapped /\ m2.overlapped
    /\ m1.ret = 2 /\ m1.poses = m2.poses /\ Len(m1.poses) = 2

\* the Schur complement of the leading block in the rows `rows` of A,
\* entry by entry and cross-multiplied: AR = A22 - A21 * B * A12
IsSchur(AR, A, B, rows) ==
  \A r \in 0..(rows - 1) : \A c \in 0..8 :
    AR.n[r][c] * B.d =
      AR.d * (B.d * A.n[4 + r][4 + c]
              - DotTo(A.n[4 + r],
                      [j \in 0..3 |-> DotTo(B.n[j], [k \in 0..3 |-> A.n[k][4 + c]], 3)],
                      3))

\* B * A[0:4, 0:4] is the identity
IsLeadInverse(B, A) ==
  \A i \in 0..3 : \A j \in 0..3 :
    DotTo(B.n[i], [k \in 0..3 |-> A.n[k][j]], 3) = (IF i = j THEN B.d ELSE 0)

\* the same instance with another second row of the fourth correspondence:
\* p[3](1) and x[3](1) occur in the row 7 of A and nowhere else
ChangeRow7(inst) ==
  IF Len(inst.p) >= NPts /\ Len(inst.x) >= NPts
    THEN [inst EXCEPT !.p[NPts][2] = @ + 1, !.x[NPts][2] = @ + 1]
    ELSE inst

LocalsRow7Changed ==
  [k \in DOMAIN LocalsOf |-> Locals(ChangeRow7(k[1]), k[2], k[3])]

\* C9 as stated: AR is the Schur complement over all 4 remaining rows of A,
\* the rows 4, 5, 6 and 7.
C9_AllFourRows ==
  \A t \in Threads :
    InCall(t) =>
      /\ th[t].AR.r = 4 /\ th[t].AR.c = 9
      /\ IsSchur(th[t].AR, th[t].A, th[t].B, 4)

\* C9 amended: B is the inverse of the leading 4 x 4 block and AR is the
\* 3 x 9 Schur complement over the rows 4, 5 and 6 of A; the row 7 takes no
\* part: AR and the roots are the same for another row 7.
C9_ThreeRows ==
  \A t \in Threads :
    InCall(t) =>
      /\ th[t].AR.r = 3 /\ th[t].AR.c = 9
      /\ Finite(th[t].B) => IsLeadInverse(th[t].B, th[t].A)
      /\ Finite(th[t].A) => (Finite(th[t].AR) <=> Finite(th[t].B))
      /\ IsSchur(th[t].AR, th[t].A, th[t].B, 3)
      /\ LET l == LocalsRow7Changed[<<th[t].inst, th[t].g, oracle>>]
         IN /\ Canon(l.AR) = Canon(th[t].AR)
            /\ l.solutions = th[t].solutions

\* a call on 4 correspondences with a regular leading block, whose row 7 is
\* not zero and differs in the changed instance, and which found roots
C9_Witness ==
  \E t \in Threads :
    /\ InCall(t) /\ WellFormed(t) /\ Finite(th[t].B) /\ th[t].n_sols >= 1
    /\ th[t].AR.r = 3
    /\ \E c \in 0..12 : th[t].A.n[7][c] # 0
    /\ LocalsRow7Changed[<<th[t].inst, th[t].g, oracle>>].A.n[7] # th[t].A.n[7]

\* the pose of one root, from the root, A and B alone
PoseOfRoot(A, B, s) ==
  LET R == Canon(cayley_param(s))
      tsv == MatMul(MatNeg(B), MatMul(Block(A, 0, 4, 4, 9), VecR(R)))
  IN [R |-> R, t |-> Canon(Block(tsv, 0, 0, 3, 1)),
      alpha |-> Canon(Block(tsv, 3, 0, 1, 1)), assigned |-> AllFields]

OtherOrder(o) == [o EXCEPT !.order = IF @ = "asc" THEN "desc" ELSE "asc"]

Range(q) == {q[k] : k \in 1..Len(q)}

\* C10: the k-th pose appended is the pose of the k-th root, computed from
\* that root, A and B alone, with R, t and alpha all assigned; no root is
\* dropped (as many poses as roots when the call returns); and with the
\* roots in the other order the poses are the same poses, in the other
\* order.
C10_EveryRootOnePose ==
  \A t \in Threads :
    InCall(t) =>
      /\ Len(Appended(t)) = th[t].i
      /\ \A k \in 1..Len(Appended(t)) :
           /\ k <= th[t].n_sols
           /\ Appended(t)[k].assigned = AllFields
           /\ Appended(t)[k] = PoseOfRoot(th[t].A, th[t].B, th[t].solutions[k])
      /\ Done(t) =>
           /\ Len(Appended(t)) = th[t].n_sols
           /\ LET other == LocalsOf[<<th[t].inst, th[t].g, OtherOrder(oracle)>>].solutions
              IN /\ Len(other) = Len(Appended(t))
                 /\ \A k \in 1..Len(other) :
                      PoseOfRoot(th[t].A, th[t].B, other[Len(other) + 1 - k]) = Appended(t)[k]

\* both roots of "mirror" became poses, one of negative scale, although
\* one of them fails the second row of the fourth correspondence
C10_Witness ==
  \E t \in Threads :
    /\ Done(t) /\ th[t].inst.name = "mirror" /\ th[t].n_sols = 2
    /\ Len(Appended(t)) = 2
    /\ \E k \in 1..2 : Appended(t)[k].alpha.n[0][0] < 0
    /\ \E k \in 1..2 : Appended(t)[k].alpha.n[0][0] > 0
    /\ \E k \in 1..2 : ~RowVanishes(th[t].A, Appended(t)[k], 7)
    /\ Appended(t)[1] # Appended(t)[2]

====
